---- MODULE Spec2Model ----
(***************************************************************************)
(* Word-level model of mm.c: a segregated-list allocator with optimized   *)
(* boundary tags over an sbrk-style heap.                                  *)
(*                                                                         *)
(* Pointers are byte addresses, the heap is a function from word-aligned   *)
(* byte addresses to signed words.  An allocator state is a record         *)
(*   mem, heap_start, heap_end, last, segregated_list,                     *)
(*   brk (the provider's break), sbrk (the provider calls of the current   *)
(*   public call), copied (the byte counts of its memcpy calls),           *)
(*   ub (an access outside the mapped heap happened) and                   *)
(*   hang (a list walk met a cycle and never returns).                     *)
(* Every C function is an operator from records to records.                *)
(*                                                                         *)
(* size_t and word_t are modelled SizeBits wide (two's complement): the    *)
(* code's 32-bit store / sign-extending load of a tag is the identity both *)
(* on the small values and on the values next to SIZE_MAX that occur here. *)
(***************************************************************************)
EXTENDS Integers, Sequences, FiniteSets, TLC

\* ------------------------------------------------------------ bounds ----
\* width of size_t, word_t and of pointers in the model
SizeBits == 10
\* the sbrk provider grants at most this many ALIGNMENT-sized units to blocks
MaxHeapUnits == 18

\* ------------------------------------------------- program constants ----
ALIGNMENT == 16
WSIZE == 4
FREE == 0
USED == 1
PREVFREE == 2
NUM_LIST == 9
NULL == 0

SizeMod == 2 ^ SizeBits
SIZE_MAX == SizeMod - 1

\* conversion to size_t / pointer arithmetic: reduction modulo 2^SizeBits
ToSizeT(x) == x % SizeMod
\* conversion to a signed type of the same width (long, word_t)
ToSigned(x) == LET u == x % SizeMod IN IF u >= SizeMod \div 2 THEN u - SizeMod ELSE u
PtrAdd(p, n) == (p + n) % SizeMod

\* bitwise or / and-not on the two flag bits of a value
Bit(x, b) == (x \div b) % 2
OrFlags(x, f) ==
    (x - (x % 4))
    + (IF Bit(x, 1) = 1 \/ Bit(f, 1) = 1 THEN 1 ELSE 0)
    + (IF Bit(x, 2) = 1 \/ Bit(f, 2) = 1 THEN 2 ELSE 0)

\* #define PACK(size, alloc) ((size) | (alloc))
PACK(size, alloc) == OrFlags(size, alloc)

\* ------------------------------------------------------ the provider ----
\* initial break of the sbrk provider: 16-byte aligned and not the null address
mem_heap_lo == 4 * ALIGNMENT
\* highest break the provider grants: bucket table, prologue area, blocks
mem_heap_max == mem_heap_lo + 8 * NUM_LIST + 2 * ALIGNMENT + MaxHeapUnits * ALIGNMENT
\* word addresses of the region the provider maps for the heap proper
\* (the bucket table below it is the variable segregated_list)
HeapWords == { a \in (mem_heap_lo + 8 * NUM_LIST) .. (mem_heap_max - 1) : a % 4 = 0 }

\* mem_sbrk(incr): refuses a negative increment, one beyond the limit, and
\* whenever the environment (grant = FALSE) is out of memory; else returns the
\* old break.  The call is logged in s.sbrk.  Result: <<state, address or -1>>.
mem_sbrk(s, incr, grant) ==
    LET n  == ToSigned(incr)
        ok == grant /\ n >= 0 /\ s.brk + n <= mem_heap_max
    IN  IF ok
          THEN << [s EXCEPT !.brk = s.brk + n,
                            !.sbrk = Append(s.sbrk, [size |-> ToSizeT(incr), ok |-> TRUE])],
                  s.brk >>
          ELSE << [s EXCEPT !.sbrk = Append(s.sbrk, [size |-> ToSizeT(incr), ok |-> FALSE])],
                  -1 >>

\* ---------------------------------------------------- memory access ----
\* the element of a one-element set.  Only({ e : x \in { v } }) is e with x
\* bound to the value of v: the state after one statement, named for the
\* statements that follow it
Only(S) == CHOOSE x \in S : TRUE

Mapped(a) == a \in HeapWords
\* *(word_t *)p
GET(s, p) == IF Mapped(p) THEN s.mem[p] ELSE 0
\* a load or store at p: undefined behaviour outside the mapped heap
Touch(s, p) == IF Mapped(p) THEN s ELSE [s EXCEPT !.ub = TRUE]
\* #define PUT(p, val) (*(unsigned int *)(p) = (val))
PUT(s, p, val) ==
    IF Mapped(p) THEN [s EXCEPT !.mem[p] = ToSigned(val)] ELSE [s EXCEPT !.ub = TRUE]

\* ----------------------------------------------- boundary tag handling ----
bt_size(s, bt) == LET w == GET(s, bt) IN ToSizeT(w - (w % 4))
bt_used(s, bt) == Bit(GET(s, bt), USED)
bt_free(s, bt) == Bit(GET(s, bt), USED) = 0
bt_get_prevfree(s, bt) == PREVFREE * Bit(GET(s, bt), PREVFREE)

bt_clr_prevfree(s, bt) ==
    IF bt # NULL THEN PUT(s, bt, GET(s, bt) - bt_get_prevfree(s, bt)) ELSE s

bt_set_prevfree(s, bt) == PUT(s, bt, GET(s, bt) + (PREVFREE - bt_get_prevfree(s, bt)))

bt_footer(s, bt) == PtrAdd(bt, bt_size(s, bt) - WSIZE)
bt_header(ptr) == PtrAdd(ptr, -WSIZE)
bt_payload(bt) == PtrAdd(bt, WSIZE)

bt_next(s, block_ptr) ==
    LET next == PtrAdd(block_ptr, bt_size(s, block_ptr))
    IN  IF next <= s.heap_end THEN next ELSE NULL

bt_prev(s, block_ptr) ==
    LET prev == PtrAdd(block_ptr, - bt_size(s, PtrAdd(block_ptr, -WSIZE)))
    IN  IF prev >= s.heap_start THEN prev ELSE NULL

bt_make(s, bt, size, flags) ==
    Only({ IF bt_used(s1, bt) # 0
             THEN IF bt_next(s1, bt) # NULL
                    THEN bt_clr_prevfree(s1, bt_next(s1, bt))
                    ELSE s1
             ELSE Only({ PUT(s2, bt_footer(s2, bt), PACK(size, flags))
                         : s2 \in { IF bt_next(s1, bt) # NULL
                                      THEN bt_set_prevfree(s1, bt_next(s1, bt))
                                      ELSE s1 } })
           : s1 \in { PUT(s, bt, PACK(size, flags)) } })

\* (size + ALIGNMENT - 1) & -ALIGNMENT in size_t arithmetic
round_up(size) ==
    LET t == ToSizeT(size + ALIGNMENT - 1) IN t - (t % ALIGNMENT)

\* ------------------------------------------------ explicit free lists ----
get_free_next(s, block_ptr) ==
    LET next == GET(s, PtrAdd(block_ptr, 4))
    IN  IF next < 0 THEN NULL ELSE PtrAdd(s.heap_start, 4 * next)

get_free_prev(s, block_ptr) ==
    LET prev == GET(s, PtrAdd(block_ptr, 8))
    IN  IF prev < 0 THEN NULL ELSE PtrAdd(s.heap_start, 4 * prev)

\* word_t pointer difference next_block - heap_start, stored as a word
set_free_next(s, block_ptr, next_block) ==
    PUT(s, PtrAdd(block_ptr, 4), (next_block - s.heap_start) \div 4)

set_free_prev(s, block_ptr, prev_block) ==
    PUT(s, PtrAdd(block_ptr, 8), (prev_block - s.heap_start) \div 4)

free_list_append(s, block_ptr, index) ==
    Only({ [ (IF s1.segregated_list[index] = NULL
                THEN set_free_next(s1, block_ptr, s1.heap_start - 4)
                ELSE set_free_next(
                         set_free_prev(s1, s1.segregated_list[index], block_ptr),
                         block_ptr, s1.segregated_list[index]))
             EXCEPT !.segregated_list[index] = block_ptr ]
           : s1 \in { set_free_prev(s, block_ptr, s.heap_start - 4) } })

free_list_delete(s, block_ptr, index) ==
    IF s.segregated_list[index] = block_ptr /\ get_free_next(s, block_ptr) = NULL
      THEN [Touch(s, PtrAdd(block_ptr, 4)) EXCEPT !.segregated_list[index] = NULL]
    ELSE IF s.segregated_list[index] = block_ptr
      THEN Only({ [s1 EXCEPT !.segregated_list[index] = get_free_next(s1, block_ptr)]
                  : s1 \in { set_free_prev(Touch(s, PtrAdd(block_ptr, 4)),
                                           get_free_next(s, block_ptr),
                                           s.heap_start - 4) } })
    ELSE IF get_free_next(s, block_ptr) # NULL
      THEN Only({ set_free_prev(s1, get_free_next(s1, block_ptr),
                                get_free_prev(s1, block_ptr))
                  : s1 \in { set_free_next(
                                 Touch(Touch(s, PtrAdd(block_ptr, 4)), PtrAdd(block_ptr, 8)),
                                 get_free_prev(s, block_ptr),
                                 get_free_next(s, block_ptr)) } })
    ELSE set_free_next(Touch(Touch(s, PtrAdd(block_ptr, 4)), PtrAdd(block_ptr, 8)),
                       get_free_prev(s, block_ptr), s.heap_start - 4)

\* ----------------------------------------------------- segregated list ----
get_index(size) ==
    IF size <= 512
      THEN IF size <= 64
             THEN IF size = 16 THEN 0 ELSE IF size = 32 THEN 1 ELSE 2
             ELSE IF size <= 256
                    THEN IF size <= 128 THEN 3 ELSE 4
                    ELSE 5
      ELSE IF size <= 2048
             THEN IF size <= 1024 THEN 6 ELSE 7
             ELSE 8

\* results of find_fit that are no pointer: the list walk never ends (a cycle),
\* or it reads outside the mapped heap
HANG == NULL - 1
CRASH == NULL - 2

\* ------------------------------------------------------------ find_fit ----
RECURSIVE fit_scan_first(_, _, _, _, _)
\* the loop of find_fit as a first-fit search: it keeps the first block that fits
fit_scan_first(s, asize, ptr, best_fit, seen) ==
    IF ptr = NULL THEN best_fit
    ELSE IF ptr \in seen THEN HANG
    ELSE IF ~Mapped(ptr) \/ ~Mapped(PtrAdd(ptr, 4)) THEN CRASH
    ELSE fit_scan_first(s, asize, get_free_next(s, ptr),
                        IF bt_size(s, ptr) >= asize /\ best_fit = NULL
                          THEN ptr ELSE best_fit,
                        seen \cup {ptr})

RECURSIVE fit_scan(_, _, _, _, _)
\* the for loop of find_fit over one bucket list, from ptr on
fit_scan(s, asize, ptr, best_fit, seen) ==
    IF ptr = NULL THEN best_fit
    ELSE IF ptr \in seen THEN HANG
    ELSE IF ~Mapped(ptr) \/ ~Mapped(PtrAdd(ptr, 4)) THEN CRASH
    ELSE fit_scan(s, asize, get_free_next(s, ptr),
                  IF bt_size(s, ptr) >= asize
                     /\ (best_fit = NULL \/ bt_size(s, ptr) < bt_size(s, best_fit))
                    THEN ptr ELSE best_fit,
                  seen \cup {ptr})

RECURSIVE fit_from(_, _, _)
\* the while loop of find_fit, from bucket index on
fit_from(s, asize, index) ==
    IF index >= NUM_LIST THEN NULL
    ELSE LET best_fit == fit_scan(s, asize, s.segregated_list[index], NULL, {})
         IN  IF best_fit # NULL THEN best_fit ELSE fit_from(s, asize, index + 1)

find_fit(s, asize) == fit_from(s, asize, get_index(asize))

\* --------------------------------------------------------------- place ----
place(s, block_ptr, asize) ==
    LET fsize == bt_size(s, block_ptr)
        rest  == ToSizeT(fsize - asize)
    IN  Only({ IF rest >= ALIGNMENT
                 THEN Only({ [ free_list_append(bt_make(s2, bt_next(s2, block_ptr), rest, FREE),
                                                bt_next(s2, block_ptr), get_index(rest))
                               EXCEPT !.last = IF @ < bt_next(s2, block_ptr)
                                                 THEN bt_next(s2, block_ptr) ELSE @ ]
                             : s2 \in { bt_make(s1, block_ptr, asize,
                                                OrFlags(USED, bt_get_prevfree(s1, block_ptr))) } })
                 ELSE bt_make(s1, block_ptr, fsize,
                              OrFlags(USED, bt_get_prevfree(s1, block_ptr)))
               : s1 \in { free_list_delete(s, block_ptr, get_index(fsize)) } })

\* extend_heap that unlinks a free last block before it asks the provider
extend_heap_unlinks_first(s, size, grant) ==
    LET absorb == s.last # NULL /\ bt_free(s, s.last)
        block_ptr == IF absorb THEN s.last ELSE s.heap_end
    IN  Only({ IF r[2] = -1 THEN << r[1], NULL >>
               ELSE LET total == IF absorb
                                   THEN ToSizeT(size + bt_size(r[1], r[1].last))
                                   ELSE size
                    IN  << [ PUT(bt_make(r[1], block_ptr, total, USED),
                                 PtrAdd(block_ptr, total), PACK(0, USED))
                             EXCEPT !.last = block_ptr,
                                    !.heap_end = PtrAdd(block_ptr, total) ],
                           block_ptr >>
               : r \in { mem_sbrk(IF absorb
                                    THEN free_list_delete(s, block_ptr,
                                                          get_index(bt_size(s, s.last)))
                                    ELSE s,
                                  size, grant) } })

\* --------------------------------------------------------- extend_heap ----
\* result: <<state, block pointer or NULL>>
extend_heap(s, size, grant) ==
    Only({ IF r[2] = -1 THEN << r[1], NULL >>
           ELSE LET absorb == r[1].last # NULL /\ bt_free(r[1], r[1].last)
                    block_ptr == IF absorb THEN r[1].last ELSE r[1].heap_end
                IN  Only({ LET total == IF absorb
                                          THEN ToSizeT(size + bt_size(s1, s1.last))
                                          ELSE size
                           IN  << [ PUT(bt_make(s1, block_ptr, total, USED),
                                        PtrAdd(block_ptr, total), PACK(0, USED))
                                    EXCEPT !.last = block_ptr,
                                           !.heap_end = PtrAdd(block_ptr, total) ],
                                  block_ptr >>
                           : s1 \in { IF absorb
                                        THEN free_list_delete(
                                                 r[1], block_ptr,
                                                 get_index(bt_size(r[1], r[1].last)))
                                        ELSE r[1] } })
           : r \in { mem_sbrk(s, size, grant) } })

\* -------------------------------------------------------------- malloc ----
\* malloc after the test for a zero size.  Result: <<state, payload or NULL>>
malloc_nonzero(s, size, grant) ==
    LET asize == round_up(ToSizeT(size + WSIZE))
    IN  Only({ IF block_ptr = HANG THEN << [s EXCEPT !.hang = TRUE], NULL >>
               ELSE IF block_ptr = CRASH THEN << [s EXCEPT !.ub = TRUE], NULL >>
               ELSE IF block_ptr # NULL
                 THEN << place(s, block_ptr, asize), bt_payload(block_ptr) >>
               ELSE Only({ IF r[2] = NULL THEN << r[1], NULL >>
                           ELSE << r[1], bt_payload(r[2]) >>
                           : r \in { extend_heap(
                                         s,
                                         IF s.last # NULL /\ bt_free(s, s.last)
                                           THEN ToSizeT(asize - bt_size(s, s.last))
                                           ELSE asize,
                                         grant) } })
               : block_ptr \in { find_fit(s, asize) } })

\* malloc that serves a request of zero bytes like any other
malloc_serves_zero(s, size, grant) == malloc_nonzero(s, size, grant)

\* result: <<state, payload pointer or NULL>>
malloc(s, size, grant) ==
    IF size = 0 THEN << s, NULL >> ELSE malloc_nonzero(s, size, grant)

\* ------------------------------------------------------------ coalesce ----
coalesce(s, block_ptr) ==
    LET prev_block == bt_prev(s, block_ptr)
        next_block == bt_next(s, block_ptr)
        size0      == bt_size(s, block_ptr)
        prev_free  == bt_get_prevfree(s, block_ptr) # 0
        next_free  == bt_free(s, next_block)
        change_last == (block_ptr = s.last \/ (next_block = s.last /\ next_free))
        bp == IF prev_free THEN prev_block ELSE block_ptr
    IN  Only({ LET size1 == IF next_free
                              THEN ToSizeT(size0 + bt_size(s, next_block))
                              ELSE size0
                   size2 == IF prev_free
                              THEN ToSizeT(size1 + bt_size(s1, prev_block))
                              ELSE size1
               IN  Only({ [ free_list_append(bt_make(s2, bp, size2, FREE),
                                             bp, get_index(size2))
                            EXCEPT !.last = IF change_last THEN bp ELSE @ ]
                          : s2 \in { IF prev_free
                                       THEN free_list_delete(Touch(s1, prev_block), bp,
                                                             get_index(bt_size(s1, bp)))
                                       ELSE s1 } })
               : s1 \in { IF next_free
                            THEN free_list_delete(
                                     Touch(Touch(s, PtrAdd(block_ptr, -WSIZE)), next_block),
                                     next_block, get_index(bt_size(s, next_block)))
                            ELSE Touch(Touch(s, PtrAdd(block_ptr, -WSIZE)), next_block) } })

\* ---------------------------------------------------------------- free ----
free(s, ptr) ==
    IF ptr = NULL THEN s
    ELSE LET block_ptr == bt_header(ptr)
         IN  Only({ IF bt_get_prevfree(s1, block_ptr) # 0
                      THEN coalesce(s1, block_ptr)
                    ELSE IF bt_free(s1, bt_next(s1, block_ptr))
                      THEN coalesce(Touch(s1, bt_next(s1, block_ptr)), block_ptr)
                    ELSE free_list_append(Touch(s1, bt_next(s1, block_ptr)), block_ptr,
                                          get_index(bt_size(s1, block_ptr)))
                    : s1 \in { bt_make(s, block_ptr, bt_size(s, block_ptr),
                                       OrFlags(FREE, bt_get_prevfree(s, block_ptr))) } })

\* memcpy(dst, src, n): n is a multiple of the word size here; the number of
\* bytes copied is logged in s.copied
memcpy(s, dst, src, n) ==
    LET words == { i \in 0 .. (SizeMod \div 4) : 4 * i < n }
        bad   == \/ \E i \in words : ~Mapped(dst + 4 * i) \/ ~Mapped(src + 4 * i)
                 \/ (n > 0 /\ dst < src + n /\ src < dst + n)
    IN  IF bad THEN [s EXCEPT !.ub = TRUE, !.copied = Append(@, n)]
        ELSE [s EXCEPT !.copied = Append(@, n),
                       !.mem = [a \in HeapWords |->
                 IF a >= dst /\ a < dst + n THEN s.mem[src + (a - dst)] ELSE s.mem[a]]]

\* memset(dst, 0, n) on a little-endian machine: whole words, then the low
\* n % 4 bytes of the next word
memset0(s, dst, n) ==
    LET full == n - (n % 4)
        part == n % 4
        bad  == \E a \in dst .. (dst + n - 1) : a % 4 = 0 /\ ~Mapped(a)
    IN  IF bad THEN [s EXCEPT !.ub = TRUE]
        ELSE [s EXCEPT !.mem = [a \in HeapWords |->
                 IF a >= dst /\ a < dst + full THEN 0
                 ELSE IF part > 0 /\ a = dst + full
                   THEN s.mem[a] - (s.mem[a] % (256 ^ part))
                 ELSE s.mem[a]]]

\* ------------------------------------------------------------- realloc ----
\* realloc of a block to a size that is not zero.  Result: <<state, payload or NULL>>
realloc_resize(s, ptr, size, grant) ==
    LET block_ptr == bt_header(ptr)
        next      == bt_next(s, block_ptr)
        asize     == round_up(ToSizeT(size + WSIZE))
        next_free == bt_free(s, next)
        free_size == IF next_free
                       THEN ToSizeT(bt_size(s, block_ptr) + bt_size(s, next))
                       ELSE bt_size(s, block_ptr)
        change_last == (block_ptr = s.last \/ (next = s.last /\ next_free))
        rest == ToSizeT(free_size - asize)
    IN  IF free_size < asize
          THEN IF change_last
                 THEN Only({ IF r[2] = NULL THEN << r[1], NULL >>
                             ELSE << [bt_make(r[1], block_ptr, asize, USED)
                                        EXCEPT !.last = block_ptr],
                                     ptr >>
                             : r \in { extend_heap(Touch(Touch(s, block_ptr), next),
                                                   ToSizeT(asize - free_size), grant) } })
                 ELSE Only({ IF m[2] = NULL THEN m
                             ELSE << free(memcpy(m[1], m[2], ptr,
                                                 ToSizeT(free_size - WSIZE)), ptr),
                                     m[2] >>
                             : m \in { malloc(Touch(Touch(s, block_ptr), next),
                                              size, grant) } })
          ELSE
            Only({ IF rest >= ALIGNMENT
                     THEN Only({ << [ free_list_append(
                                          bt_make(s2, bt_next(s2, block_ptr), rest, FREE),
                                          bt_next(s2, block_ptr), get_index(rest))
                                      EXCEPT !.last = IF change_last
                                                        THEN bt_next(s2, block_ptr)
                                                        ELSE @ ],
                                    ptr >>
                                 : s2 \in { bt_make(s1, block_ptr, asize,
                                                    OrFlags(USED,
                                                            bt_get_prevfree(s1, block_ptr))) } })
                     ELSE << [ bt_make(s1, block_ptr, free_size,
                                       OrFlags(USED, bt_get_prevfree(s1, block_ptr)))
                               EXCEPT !.last = IF change_last THEN block_ptr ELSE @ ],
                             ptr >>
                   : s1 \in { IF next_free
                                THEN free_list_delete(Touch(Touch(s, block_ptr), next), next,
                                                      get_index(bt_size(s, next)))
                                ELSE Touch(Touch(s, block_ptr), next) } })

\* realloc that resizes to zero bytes instead of freeing
realloc_keeps_zero(s, ptr, size, grant) ==
    IF ptr = NULL THEN malloc(s, size, grant) ELSE realloc_resize(s, ptr, size, grant)

\* result: <<state, payload pointer or NULL>>
realloc(s, ptr, size, grant) ==
    IF ptr = NULL THEN malloc(s, size, grant)
    ELSE IF size = 0 THEN << free(s, ptr), NULL >>
    ELSE realloc_resize(s, ptr, size, grant)

\* -------------------------------------------------------------- calloc ----
\* result: <<state, payload pointer or NULL>>
calloc(s, nmemb, size, grant) ==
    Only({ IF m[2] # NULL
             THEN << memset0(m[1], m[2], ToSizeT(nmemb * size)), m[2] >>
             ELSE m
           : m \in { malloc(s, ToSizeT(nmemb * size), grant) } })

\* ------------------------------------------------------------- mm_init ----
\* the allocator state before mm_init: statics are zero, the provider's break
\* is at mem_heap_lo and the mapped heap holds the word fill
Blank(fill) ==
    [ mem |-> [a \in HeapWords |-> fill],
      heap_start |-> NULL, heap_end |-> NULL, last |-> NULL,
      segregated_list |-> [i \in 0 .. NUM_LIST - 1 |-> NULL],
      brk |-> mem_heap_lo, sbrk |-> << >>, copied |-> << >>,
      ub |-> FALSE, hang |-> FALSE ]

\* mm_init with a prologue of 16 bytes
mm_init_short_prologue(s, grant) ==
    Only({ IF r1[2] = -1 THEN << r1[1], -1 >>
           ELSE Only({ IF r2[2] = -1 THEN << r2[1], -1 >>
                       ELSE << [ PUT(bt_make(PUT([r2[1] EXCEPT !.heap_start = r2[2]],
                                                 r2[2], 0),
                                             r2[2], 16, USED),
                                     PtrAdd(r2[2], 4 * 4), PACK(0, USED))
                                 EXCEPT !.heap_start = PtrAdd(r2[2], 4 * 4),
                                        !.heap_end = PtrAdd(r2[2], 4 * 4),
                                        !.last = NULL ],
                               0 >>
                       : r2 \in { mem_sbrk(
                                      [r1[1] EXCEPT !.segregated_list =
                                                       [i \in 0 .. NUM_LIST - 1 |-> NULL]],
                                      2 * ALIGNMENT, grant) } })
           : r1 \in { mem_sbrk(s, 8 * NUM_LIST, grant) } })

\* result: <<state, 0 or -1>>
mm_init(s, grant) ==
    Only({ IF r1[2] = -1 THEN << r1[1], -1 >>
           ELSE Only({ IF r2[2] = -1 THEN << r2[1], -1 >>
                       ELSE << [ PUT(bt_make(PUT([r2[1] EXCEPT !.heap_start = r2[2]],
                                                 r2[2], 0),
                                             r2[2], 20, USED),
                                     PtrAdd(r2[2], 5 * 4), PACK(0, USED))
                                 EXCEPT !.heap_start = PtrAdd(r2[2], 5 * 4),
                                        !.heap_end = PtrAdd(r2[2], 5 * 4),
                                        !.last = NULL ],
                               0 >>
                       : r2 \in { mem_sbrk(
                                      [r1[1] EXCEPT !.segregated_list =
                                                       [i \in 0 .. NUM_LIST - 1 |-> NULL]],
                                      2 * ALIGNMENT, grant) } })
           : r1 \in { mem_sbrk(s, 8 * NUM_LIST, grant) } })

\* ============================================================ the system ====
\* The statics free_list_start and last_free are written (mm_init, the last
\* branch of free_list_delete) and never read: they are not part of the state.
VARIABLES mem, heap_start, heap_end, last, segregated_list, brk,
          status, live, call, calls

vars == << mem, heap_start, heap_end, last, segregated_list, brk,
           status, live, call, calls >>

\* public calls a run makes
MaxCalls == 5

\* request sizes of the callers: zero and the two sides of a rounding boundary
SmallSizes == { 0, 12, 13 }
\* sizes next to SIZE_MAX, where size + WSIZE and round_up wrap around
WrapSizes == { SIZE_MAX - 4, SIZE_MAX }
\* (nmemb, size) pairs of calloc; the product of the last wraps around to 0
CallocArgs == { << 1, 13 >>, << SizeMod \div 2, 2 >> }
\* content of the memory the provider maps
Fill == { 0 }

\* the allocator state as a record, at the start of a public call
Cur ==
    [ mem |-> mem, heap_start |-> heap_start, heap_end |-> heap_end, last |-> last,
      segregated_list |-> segregated_list,
      brk |-> brk, sbrk |-> << >>, copied |-> << >>, ub |-> FALSE, hang |-> FALSE ]

\* the record of the call just made
Call(op, args, ret, s) ==
    [ op |-> op, args |-> args, ret |-> ret, sbrk |-> s.sbrk, copy |-> s.copied ]

\* the state after a public call that ended in state s: a call that ran into
\* undefined behaviour or into an endless loop never returns
Commit(s, c, lv) ==
    IF s.ub \/ s.hang
      THEN /\ status' = IF s.ub THEN "crashed" ELSE "hung"
           /\ call' = [c EXCEPT !.ret = NULL]
           /\ UNCHANGED << mem, heap_start, heap_end, last, segregated_list,
                           brk, live >>
      ELSE /\ mem' = s.mem
           /\ heap_start' = s.heap_start
           /\ heap_end' = s.heap_end
           /\ last' = s.last
           /\ segregated_list' = s.segregated_list
           /\ brk' = s.brk
           /\ status' = "running"
           /\ live' = lv
           /\ call' = c

\* what the caller knows of a pointer it was handed: the bytes it asked for,
\* the size of the block at that moment, and whether the pointer was handed
\* out while the caller still held it from an earlier call
Entry(s, ptr, n, again) ==
    [ n |-> n, size |-> bt_size(s, bt_header(ptr)), twice |-> again ]
Drop(lv, ptr) == [ q \in DOMAIN lv \ {ptr} |-> lv[q] ]
Hand(lv, s, ptr, n) == (ptr :> Entry(s, ptr, n, ptr \in DOMAIN lv)) @@ lv

\* the provider's answer matters only to a call that asks it
Grants(asks) == IF asks THEN BOOLEAN ELSE { TRUE }

Init ==
    \E fill \in Fill :
      \E r \in { mm_init(Blank(fill), TRUE) } :
          /\ r[2] = 0
          /\ mem = r[1].mem
          /\ heap_start = r[1].heap_start
          /\ heap_end = r[1].heap_end
          /\ last = r[1].last
          /\ segregated_list = r[1].segregated_list
          /\ brk = r[1].brk
          /\ status = "running"
          /\ live = << >>
          /\ call = Call("mm_init", << >>, r[2], r[1])
          /\ calls = 0

\* a run makes at most MaxCalls public calls
Tick == calls < MaxCalls /\ calls' = calls + 1

Malloc(n) ==
    /\ status = "running"
    /\ Tick
    /\ \E grant \in Grants(malloc(Cur, n, TRUE)[1].sbrk # << >>) :
         \E r \in { malloc(Cur, n, grant) } :
             Commit(r[1], Call("malloc", << n >>, r[2], r[1]),
                    IF r[2] # NULL THEN Hand(live, r[1], r[2], n) ELSE live)

Calloc(nmemb, size) ==
    /\ status = "running"
    /\ Tick
    /\ \E grant \in Grants(calloc(Cur, nmemb, size, TRUE)[1].sbrk # << >>) :
         \E r \in { calloc(Cur, nmemb, size, grant) } :
             Commit(r[1], Call("calloc", << nmemb, size >>, r[2], r[1]),
                    IF r[2] # NULL
                      THEN Hand(live, r[1], r[2], ToSizeT(nmemb * size))
                      ELSE live)

Free(ptr) ==
    /\ status = "running"
    /\ Tick
    /\ \E s \in { free(Cur, ptr) } :
           Commit(s, Call("free", << ptr >>, NULL, s), Drop(live, ptr))

Realloc(ptr, n) ==
    /\ status = "running"
    /\ Tick
    /\ \E grant \in Grants(realloc(Cur, ptr, n, TRUE)[1].sbrk # << >>) :
         \E r \in { realloc(Cur, ptr, n, grant) } :
             Commit(r[1], Call("realloc", << ptr, n >>, r[2], r[1]),
                    IF r[2] # NULL THEN Hand(Drop(live, ptr), r[1], r[2], n)
                    ELSE IF n = 0 THEN Drop(live, ptr)
                    ELSE live)

\* the request sizes of the callers
Sizes == SmallSizes \cup WrapSizes

\* the pointers a caller passes: those it holds, and null
Ptrs == DOMAIN live \cup {NULL}

\* callers whose request sizes do not wrap around
Next ==
    \/ \E n \in SmallSizes : Malloc(n)
    \/ \E c \in CallocArgs : Calloc(c[1], c[2])
    \/ \E ptr \in Ptrs : Free(ptr)
    \/ \E ptr \in Ptrs, n \in SmallSizes : Realloc(ptr, n)

Spec == Init /\ [][Next]_vars

\* callers that also ask for sizes next to SIZE_MAX
NextWrap ==
    \/ \E n \in Sizes : Malloc(n)
    \/ \E c \in CallocArgs : Calloc(c[1], c[2])
    \/ \E ptr \in Ptrs : Free(ptr)
    \/ \E ptr \in Ptrs, n \in Sizes : Realloc(ptr, n)

SpecWrap == Init /\ [][NextWrap]_vars

\* ======================================================== heap structure ====
RECURSIVE walk(_, _, _)
\* the block headers the loop of mm_checkheap visits from a on: it follows
\* bt_next and stops at a zero size (the epilogue) or at NULL
walk(s, a, acc) ==
    IF a = NULL \/ a \in acc \/ ~Mapped(a) \/ bt_size(s, a) = 0 THEN acc
    ELSE walk(s, bt_next(s, a), acc \cup {a})

\* headers of the blocks of the heap, in the current state
Blocks == walk(Cur, heap_start, {})

RECURSIVE chain(_, _, _)
\* the nodes of a bucket list from ptr on, following the next links
chain(s, ptr, acc) ==
    IF ptr = NULL \/ ptr \in acc \/ ~Mapped(ptr) THEN acc
    ELSE chain(s, get_free_next(s, ptr), acc \cup {ptr})

\* the nodes on bucket list i, in the current state
List(i) == chain(Cur, segregated_list[i], {})

Buckets == 0 .. NUM_LIST - 1
Running == status = "running"
Returned == call.op \in { "malloc", "calloc", "realloc" } /\ call.ret # NULL
SbrkFailed(c) == \E i \in DOMAIN c.sbrk : ~c.sbrk[i].ok
\* byte k (0 the lowest) of a word
Byte(w, k) == (w \div (256 ^ k)) % 256
\* byte i of the payload at ptr in memory m
PayloadByte(m, ptr, i) == Byte(m[ptr + 4 * (i \div 4)], i % 4)
Min(a, b) == IF a < b THEN a ELSE b

\* ================================================================ claims ====

\* C1: every non-null pointer malloc, calloc or realloc returns is congruent
\* to 0 modulo 16 (the provider's initial break being 16-byte aligned).
AlignedReturns == Returned => call.ret % ALIGNMENT = 0

\* a realloc has moved a block: it returned a pointer that is not its argument
MovedByRealloc ==
    Returned /\ call.op = "realloc" /\ call.args[1] \notin { NULL, call.ret }

\* C2: between public calls every live pointer is the payload of an allocated
\* block that lies between heap_start and heap_end, whose size is the one it
\* had when it was handed out, that was handed out once, and the payload
\* ranges [p, p + size - 4) of two live pointers are disjoint.
LiveBlocksDisjoint ==
    Running =>
      /\ \A p \in DOMAIN live :
           /\ bt_used(Cur, bt_header(p)) = 1
           /\ ~live[p].twice
           /\ bt_size(Cur, bt_header(p)) = live[p].size
           /\ p >= heap_start
           /\ p + bt_size(Cur, bt_header(p)) - WSIZE <= heap_end
      /\ \A p, q \in DOMAIN live :
           p < q => p + bt_size(Cur, bt_header(p)) - WSIZE <= q

\* C3: a successful realloc(p, n) of a live p with n > 0 returns a pointer
\* whose first min(n, c) payload bytes are those of p before the call, c being
\* the payload capacity size(block) - 4 before the call.
ReallocKeepsPayload ==
    [][ ( /\ call'.op = "realloc" /\ status' = "running"
          /\ call'.args[1] # NULL /\ call'.args[2] > 0 /\ call'.ret # NULL )
        => LET p == call'.args[1]
               c == bt_size(Cur, bt_header(p)) - WSIZE
           IN  \A i \in 0 .. Min(call'.args[2], c) - 1 :
                  PayloadByte(mem', call'.ret, i) = PayloadByte(mem, p, i) ]_vars

\* C4: a public call during which the provider refuses returns null and
\* leaves every heap word, heap_start, heap_end, last, the bucket heads and
\* the set of live blocks as they were.
SbrkFailureChangesNothing ==
    [][ SbrkFailed(call')
        => /\ call'.ret = NULL
           /\ status' = "running"
           /\ UNCHANGED << mem, heap_start, heap_end, last, segregated_list, live >> ]_vars

\* the provider has refused a realloc of a live block
ReallocRefused ==
    /\ call.op = "realloc" /\ call.args[1] \in DOMAIN live /\ call.args[2] > 0
    /\ SbrkFailed(call) /\ call.ret = NULL

\* C5: a non-null result of malloc(n) is the payload of a block of size at
\* least n + 4, for every n > 0 a size_t holds.
MallocBlockHoldsRequest ==
    (call.op = "malloc" /\ call.ret # NULL)
      => bt_size(Cur, bt_header(call.ret)) >= call.args[1] + WSIZE

\* C6: from every state, realloc(NULL, n) gives the result and the state of
\* malloc(n), and realloc(p, 0) of a live p gives null and the state of free(p).
ReallocDegenerates ==
    Running =>
      /\ \A n \in Sizes, grant \in BOOLEAN :
            realloc(Cur, NULL, n, grant) = malloc(Cur, n, grant)
      /\ \A p \in DOMAIN live, grant \in BOOLEAN :
            realloc(Cur, p, 0, grant) = << free(Cur, p), NULL >>

\* realloc(p, 0) has freed a block: a bucket list holds it
ReallocZeroFreed ==
    /\ Running /\ call.op = "realloc" /\ call.args[1] # NULL /\ call.args[2] = 0
    /\ \E i \in Buckets : segregated_list[i] # NULL

\* C7: malloc(0) and free(NULL) return null, do not call the provider and
\* leave every heap word, heap_start, heap_end, last, the bucket heads and
\* the break unchanged.
SpuriousCallsChangeNothing ==
    [][ ( \/ (call'.op = "malloc" /\ call'.args = << 0 >>)
          \/ (call'.op = "free" /\ call'.args = << NULL >>) )
        => /\ call'.ret = NULL /\ call'.sbrk = << >> /\ status' = "running"
           /\ UNCHANGED << mem, heap_start, heap_end, last, segregated_list, brk, live >> ]_vars

\* free(NULL) was called on a heap that holds live and free blocks
FreeNullCalled ==
    /\ Running /\ call.op = "free" /\ call.args = << NULL >>
    /\ live # << >> /\ \E i \in Buckets : segregated_list[i] # NULL

\* C8: after every public call, for every block the PREVFREE bit of its
\* physical successor (the epilogue included) is set iff the block is free.
PrevFreeMatches ==
    Running =>
      \A b \in Blocks :
         (bt_get_prevfree(Cur, PtrAdd(b, bt_size(Cur, b))) # 0) <=> bt_free(Cur, b)

\* C9: after every public call no two physically adjacent blocks are both free.
NoAdjacentFree ==
    Running =>
      \A b \in Blocks :
         LET nx == PtrAdd(b, bt_size(Cur, b))
         IN  ~(bt_free(Cur, b) /\ nx \in Blocks /\ bt_free(Cur, nx))

\* C10: after every public call a free block is on bucket list
\* get_index(size) and on no other, and an allocated block is on none.
BucketMembership ==
    Running =>
      \A b \in Blocks :
         IF bt_free(Cur, b)
           THEN \A i \in Buckets : (b \in List(i)) <=> (i = get_index(bt_size(Cur, b)))
           ELSE \A i \in Buckets : b \notin List(i)

RECURSIVE ends(_, _, _)
\* following the next links from ptr reaches the end of the list: no node
\* is met twice and none lies outside the mapped heap
ends(s, ptr, seen) ==
    IF ptr = NULL THEN TRUE
    ELSE IF ptr \in seen \/ ~Mapped(ptr) THEN FALSE
    ELSE ends(s, get_free_next(s, ptr), seen \cup {ptr})

\* C11: after every public call each of the 9 bucket lists is a well-formed
\* doubly linked list: the next links from the head end without a cycle, the
\* prev link of the head is none, and the prev link of the successor of an
\* element is that element.
ListsWellFormed ==
    Running =>
      \A i \in Buckets :
         /\ ends(Cur, segregated_list[i], {})
         /\ segregated_list[i] # NULL => get_free_prev(Cur, segregated_list[i]) = NULL
         /\ \A x \in List(i) :
               get_free_next(Cur, x) # NULL
                 => get_free_prev(Cur, get_free_next(Cur, x)) = x

\* C12: after every public call the footer word of every free block equals
\* its header word, the PREVFREE bit included.
FooterIsHeader ==
    Running =>
      \A b \in Blocks :
         bt_free(Cur, b) => GET(Cur, bt_footer(Cur, b)) = GET(Cur, b)

RECURSIVE walk_end(_, _, _)
\* the address at which the walk from a by block sizes stops: the first
\* header of size zero, or NULL when the walk leaves the heap or loops
walk_end(s, a, seen) ==
    IF a = NULL \/ a \in seen \/ ~Mapped(a) THEN NULL
    ELSE IF bt_size(s, a) = 0 THEN a
    ELSE walk_end(s, PtrAdd(a, bt_size(s, a)), seen \cup {a})

\* C14: after every public call the walk from heap_start by block sizes
\* lands on heap_end, where the word is the epilogue: size 0, USED set.
WalkReachesEpilogue ==
    Running =>
      /\ walk_end(Cur, heap_start, {}) = heap_end
      /\ bt_size(Cur, heap_end) = 0
      /\ bt_used(Cur, heap_end) = 1

\* C15: after every public call last is null iff the heap holds no block,
\* and otherwise it is the header of the block that ends at heap_end.
LastIsLastBlock ==
    Running =>
      IF Blocks = {}
        THEN last = NULL
        ELSE last \in Blocks /\ PtrAdd(last, bt_size(Cur, last)) = heap_end

\* ------------------------------------------------- find_fit on its own ----
\* request sizes that make blocks of 48 and 64 bytes (one bucket) and of 80
FitSizes == { 44, 60, 76 }
\* the adjusted sizes find_fit is asked for
FitAsizes == { 16, 32, 48, 64, 80, 96 }
\* blocks a heap of SpecFit is made of: as many as there are sizes
FitBlocks == Cardinality(FitSizes)

RECURSIVE alloc_all(_, _, _, _)
\* malloc of every size of szs, each followed by a malloc(12) that keeps the
\* blocks apart.  Result: <<state, pointers of szs, pointers of the malloc(12)>>
alloc_all(s, szs, ptrs, seps) ==
    IF szs = << >> THEN << s, ptrs, seps >>
    ELSE Only({ Only({ alloc_all(k[1], Tail(szs), Append(ptrs, m[2]), Append(seps, k[2]))
                       : k \in { malloc(m[1], 12, TRUE) } })
                : m \in { malloc(s, Head(szs), TRUE) } })

RECURSIVE free_all(_, _)
\* free of every pointer of ptrs, in order
free_all(s, ptrs) ==
    IF ptrs = << >> THEN s ELSE free_all(free(s, Head(ptrs)), Tail(ptrs))

\* the orders in which some of the blocks are freed
FreeOrders ==
    { o \in UNION { [1 .. n -> 1 .. FitBlocks] : n \in 0 .. FitBlocks } :
        \A i, j \in DOMAIN o : i # j => o[i] # o[j] }

\* a heap after mm_init, FitBlocks pairs of malloc and some frees
InitFit ==
    \E szs \in [1 .. FitBlocks -> FitSizes], o \in FreeOrders :
      \E r \in { alloc_all(mm_init(Blank(0), TRUE)[1], szs, << >>, << >>) } :
        \E s \in { free_all(r[1], [i \in DOMAIN o |-> r[2][o[i]]]) } :
          /\ mem = s.mem
          /\ heap_start = s.heap_start
          /\ heap_end = s.heap_end
          /\ last = s.last
          /\ segregated_list = s.segregated_list
          /\ brk = s.brk
          /\ status = "running"
          /\ live = [ p \in { r[2][i] : i \in 1 .. FitBlocks \ { o[j] : j \in DOMAIN o } }
                             \cup { r[3][i] : i \in 1 .. FitBlocks }
                        |-> Entry(s, p, bt_size(s, bt_header(p)) - WSIZE, FALSE) ]
          /\ call = [ op |-> "free", args |-> << >>, ret |-> NULL,
                       sbrk |-> << >>, copy |-> << >> ]
          /\ calls = 0

\* a call of find_fit: it reads the heap and changes nothing
FindFit(asize) ==
    /\ status = "running"
    /\ call' = Call("find_fit", << asize >>, find_fit(Cur, asize), Cur)
    /\ UNCHANGED << mem, heap_start, heap_end, last, segregated_list, brk,
                    status, live, calls >>

NextFit == \E asize \in FitAsizes : FindFit(asize)

SpecFit == InitFit /\ [][NextFit]_vars

\* the blocks of bucket i that hold asize bytes
Fitting(i, asize) == { b \in List(i) : bt_size(Cur, b) >= asize }

PhysLast == { b \in Blocks : PtrAdd(b, bt_size(Cur, b)) = heap_end }
\* the physically last block is free
TailFree == \E b \in PhysLast : bt_free(Cur, b)
\* every provider call of the call c was granted
SbrkGranted(c) == \A i \in DOMAIN c.sbrk : c.sbrk[i].ok

\* C17: a malloc(n) that finds no fit and is granted memory calls the
\* provider once, for asize - size(last) bytes if the physically last block
\* is free and for asize bytes otherwise; the block it returns starts at that
\* free block's header (or at the old heap_end), is allocated, has size
\* asize, and the absorbed free block is on no bucket list any more.
MallocExtends ==
    [][ ( /\ call'.op = "malloc" /\ call'.args[1] # 0 /\ status' = "running"
          /\ find_fit(Cur, round_up(ToSizeT(call'.args[1] + WSIZE))) = NULL
          /\ call'.sbrk # << >> /\ SbrkGranted(call') )
        => LET asize == round_up(ToSizeT(call'.args[1] + WSIZE))
               start == IF TailFree THEN CHOOSE b \in PhysLast : TRUE ELSE heap_end
           IN  /\ Len(call'.sbrk) = 1
               /\ call'.sbrk[1].size = IF TailFree
                                         THEN ToSizeT(asize - bt_size(Cur, start))
                                         ELSE asize
               /\ call'.ret = bt_payload(start)
               /\ bt_used(Cur', start) = 1
               /\ bt_size(Cur', start) = asize
               /\ \A i \in Buckets : start \notin List(i)' ]_vars

\* the header of the physically next block of the block at b is that of a
\* free block
NextFree(b) ==
    LET nx == PtrAdd(b, bt_size(Cur, b))
    IN  nx \in Blocks /\ bt_free(Cur, nx)
\* size of the block at b, plus that of the physically next block if it is free
Avail(b) ==
    bt_size(Cur, b)
    + (IF NextFree(b) THEN bt_size(Cur, PtrAdd(b, bt_size(Cur, b))) ELSE 0)
\* the block at b is physically last, or its free next neighbour is
AtHeapEnd(b) ==
    b \in PhysLast \/ (NextFree(b) /\ PtrAdd(b, bt_size(Cur, b)) \in PhysLast)

\* C18: realloc(p, n) of a live p, n > 0, returns p without a provider call
\* whenever avail >= asize; when avail < asize and the block or its free next
\* neighbour is physically last, it calls the provider once for asize - avail
\* bytes and, granted, returns p with block size asize; it returns another
\* pointer only when neither is the case.  asize is n + 4 rounded up to a
\* multiple of 16, as a number: it is not reduced to the width of size_t.
ReallocInPlace ==
    [][ ( /\ call'.op = "realloc" /\ status' = "running"
          /\ call'.args[1] \in DOMAIN live /\ call'.args[2] > 0 )
        => LET ptr   == call'.args[1]
               b     == bt_header(ptr)
               asize == ALIGNMENT * ((call'.args[2] + WSIZE + ALIGNMENT - 1) \div ALIGNMENT)
           IN  /\ Avail(b) >= asize
                    => /\ call'.ret = ptr /\ call'.sbrk = << >>
                       /\ bt_used(Cur', b) = 1
                       /\ bt_size(Cur', b) = IF Avail(b) - asize >= ALIGNMENT
                                               THEN asize ELSE Avail(b)
               /\ (Avail(b) < asize /\ AtHeapEnd(b))
                    => /\ Len(call'.sbrk) = 1
                       /\ call'.sbrk[1].size = asize - Avail(b)
                       /\ call'.sbrk[1].ok
                            => /\ call'.ret = ptr
                               /\ bt_used(Cur', b) = 1
                               /\ bt_size(Cur', b) = asize
               /\ call'.ret \notin { ptr, NULL }
                    => Avail(b) < asize /\ ~AtHeapEnd(b) ]_vars

\* ------------------------------------------------ realloc that has to move ----
\* callers that grow blocks past their right neighbour: 12 bytes make a block
\* of 16, 29 bytes need a block of 48, more than a block of 16 and a free
\* neighbour of 16 together
GrowSizes == { 12, 29 }

NextGrow ==
    \/ \E n \in GrowSizes : Malloc(n)
    \/ \E ptr \in Ptrs : Free(ptr)
    \/ \E ptr \in Ptrs, n \in GrowSizes : Realloc(ptr, n)

SpecGrow == Init /\ [][NextGrow]_vars

\* C19: when realloc of a live block to n > 0 bytes returns another pointer
\* (the allocate-copy-free case), it copied exactly min(cur - 4, n) bytes, where
\* cur is the size of the old block alone, a free right neighbour not counted.
ReallocCopiesPayload ==
    [][ ( /\ call'.op = "realloc"
          /\ status' = "running"
          /\ call'.args[1] \in DOMAIN live
          /\ call'.args[2] > 0
          /\ call'.ret \notin { NULL, call'.args[1] } )
        => call'.copy = << Min(bt_size(Cur, bt_header(call'.args[1])) - WSIZE,
                               call'.args[2]) >> ]_vars


\* ---------------------------------------------------------------- place ----
\* the block malloc(size) hands to place, NULL when find_fit finds none or
\* does not return, and the adjusted size it passes with it
Placed(size) ==
    Only({ IF b \in { HANG, CRASH } THEN NULL ELSE b
           : b \in { find_fit(Cur, round_up(ToSizeT(size + WSIZE))) } })
PlacedSize(size) == round_up(ToSizeT(size + WSIZE))

\* C20: place(block, asize) on a free block of size fsize >= asize takes the
\* block off its bucket list; if fsize - asize >= 16 the block becomes
\* allocated with size asize and its old PREVFREE bit, and a free block of size
\* fsize - asize starts at block + asize and is on list get_index(fsize - asize);
\* otherwise the block becomes allocated with size fsize.
PlaceSplitsOrConsumes ==
    [][ ( /\ call'.op = "malloc"
          /\ call'.args[1] # 0
          /\ status' = "running"
          /\ Placed(call'.args[1]) # NULL
          /\ bt_free(Cur, Placed(call'.args[1]))
          /\ bt_size(Cur, Placed(call'.args[1])) >= PlacedSize(call'.args[1]) )
        => LET block_ptr == Placed(call'.args[1])
               asize == PlacedSize(call'.args[1])
               fsize == bt_size(Cur, block_ptr)
               rest  == PtrAdd(block_ptr, asize)
           IN  /\ \A i \in Buckets : block_ptr \notin List(i)'
               /\ bt_used(Cur', block_ptr) = 1
               /\ IF fsize - asize >= ALIGNMENT
                    THEN /\ bt_size(Cur', block_ptr) = asize
                         /\ bt_get_prevfree(Cur', block_ptr)
                              = bt_get_prevfree(Cur, block_ptr)
                         /\ bt_free(Cur', rest)
                         /\ bt_size(Cur', rest) = fsize - asize
                         /\ \E i \in Buckets : /\ i = get_index(fsize - asize)
                                               /\ rest \in List(i)'
                    ELSE bt_size(Cur', block_ptr) = fsize ]_vars


\* -------------------------------------------------- malloc and free only ----
\* callers that never resize a block
NextPlain ==
    \/ \E n \in SmallSizes : Malloc(n)
    \/ \E ptr \in Ptrs : Free(ptr)

SpecPlain == Init /\ [][NextPlain]_vars

\* ----------------------------------------------------------------- free ----
\* the block that physically ends where b starts, as a set: empty for the
\* first block
PhysPrev(b) == { a \in Blocks : PtrAdd(a, bt_size(Cur, a)) = b }
\* where the free block made by freeing b has to start and to end: b's range,
\* extended over a free left neighbour and over a free right neighbour
MergedStart(b) ==
    IF \E a \in PhysPrev(b) : bt_free(Cur, a)
      THEN CHOOSE a \in PhysPrev(b) : bt_free(Cur, a)
      ELSE b
MergedEnd(b) == PtrAdd(b, Avail(b))

\* C21: free(p) of a live block B leaves one free block that covers B's range,
\* the free left neighbour and the free right neighbour if there were such;
\* the neighbours are on no bucket list any more, and the merged block is the
\* head of bucket get_index(its size).
FreeMerges ==
    [][ ( /\ call'.op = "free"
          /\ status' = "running"
          /\ call'.args # << >>
          /\ call'.args[1] \in DOMAIN live )
        => LET B     == bt_header(call'.args[1])
               start == MergedStart(B)
               total == MergedEnd(B) - MergedStart(B)
               next  == PtrAdd(B, bt_size(Cur, B))
           IN  /\ start \in Blocks'
               /\ bt_free(Cur', start)
               /\ bt_size(Cur', start) = total
               /\ \A i \in Buckets :
                     /\ start # B => B \notin List(i)'
                     /\ NextFree(B) => next \notin List(i)'
               /\ segregated_list'[get_index(total)] = start ]_vars

\* ----------------------------------------------------------- round trip ----
\* the physical sequence of blocks of the state s: header address, size, USED
\* bit and PREVFREE bit of every block on the walk, with heap_end and last
Layout(s) ==
    [ blocks   |-> { << b, bt_size(s, b), bt_used(s, b), bt_get_prevfree(s, b) >>
                     : b \in walk(s, s.heap_start, {}) },
      heap_end |-> s.heap_end,
      last     |-> s.last ]

\* malloc(n) in the current state, then free of the pointer it returned
RoundTrip(n) ==
    Only({ IF r[2] = NULL \/ r[1].ub \/ r[1].hang THEN r[1] ELSE free(r[1], r[2])
           : r \in { malloc(Cur, n, TRUE) } })

\* malloc(n) in the current state returns a block without asking the provider
ServedFromFree(n) ==
    \E r \in { malloc(Cur, n, TRUE) } :
        r[2] # NULL /\ r[1].sbrk = << >> /\ ~r[1].ub /\ ~r[1].hang

\* C22: in every reachable state, a malloc(n) that is served from a free block
\* followed at once by free of its result gives back the same physical sequence
\* of blocks: the same headers, sizes, USED and PREVFREE bits, heap_end and last.
MallocFreeRoundTrip ==
    Running =>
      \A n \in Sizes :
         ServedFromFree(n)
           => \E s \in { RoundTrip(n) } :
                 ~s.ub /\ ~s.hang /\ Layout(s) = Layout(Cur)

====
